---- MODULE Spec2Model ----
(***************************************************************************)
(* Model of the UI composer of SSR-catalog-example                         *)
(* (ui-composer/src/app.js): the start() sequence that fills the           *)
(* module-level variables MFElist and catalogTemplate and then listens,    *)
(* the route handlers, the error and not-found handlers, and               *)
(* responseStream, which writes a page to reply.raw through a Readable.    *)
(*                                                                         *)
(* An HTML text is a sequence of tokens.  A JavaScript value handed to     *)
(* responseStream is a record [type, val].                                 *)
(***************************************************************************)
EXTENDS Integers, Sequences, FiniteSets

\* ------------------------------------------------------------------ bounds

\* Number of requests (replies) that may be in flight or finished in one run.
MaxReq == 2

ReqIds == 1..MaxReq

\* ------------------------------------------------------- JavaScript values

JSString(s) == [type |-> "string", val |-> s]
JSNull == [type |-> "null", val |-> <<>>]
JSUndefined == [type |-> "undefined", val |-> <<>>]

\* chunk.toString() of a string chunk (app.js:18).
ToStr(chunk) == chunk.val

\* -------------------------------------------- external stores and helpers

\* What init() (./config) may resolve to: the parameters read at startup.
\* Only .template and .templatesBucket are read by app.js.
Registries ==
  { [template |-> "catalog.html", templatesBucket |-> "mfe-static-assets"],
    [template |-> "plain.html",   templatesBucket |-> "mfe-static-assets"],
    [template |-> "missing.html", templatesBucket |-> "mfe-static-assets"] }

\* MFElist before start() assigns it (`let MFElist`, app.js:9).
UnsetRegistry == [template |-> "", templatesBucket |-> ""]

\* catalogTemplate before start() assigns it (`let catalogTemplate`).
UnsetTemplate == <<>>

CatalogTemplate == <<"<html>", "mfe:catalog", "mfe:reviews", "</html>">>
PlainTemplate == <<"<html>", "<p>no fragments</p>", "</html>">>

\* The object store read by loadFromS3(key, bucket): the objects it holds.
HasObject(key, bucket) ==
  bucket = "mfe-static-assets" /\ key \in {"catalog.html", "plain.html"}

ObjectAt(key, bucket) ==
  IF key = "catalog.html" THEN CatalogTemplate ELSE PlainTemplate

\* The static pages of ./templates/staticPages.
serverErrorPage == <<"<html>", "<h1>500 server error</h1>", "</html>">>
notFoundPage == <<"<html>", "<h1>404 not found</h1>", "</html>">>

\* The payloads the JSON routes send.
HelloPayload == <<"{message: Welcome to the Micro-Frontends in AWS example}">>
HealthPayload == <<"{healthy: true}">>

\* The Template Transformer, ./utils/html-transformer: every micro-frontend
\* placeholder of the template is replaced by the fragment it names.
IsPlaceholder(tok) == tok \in {"mfe:catalog", "mfe:reviews"}

Fragment(tok) ==
  IF tok = "mfe:catalog" THEN "<section>catalog</section>"
  ELSE "<section>reviews</section>"

transformTemplate(t) ==
  [i \in DOMAIN t |-> IF IsPlaceholder(t[i]) THEN Fragment(t[i]) ELSE t[i]]

\* ------------------------------------------------------------------- state

VARIABLES
  pc,               \* where start() is: start, awaitInit, awaitLoad,
                    \* awaitListen, listening, catch, exited
  MFElist,          \* module-level variable, app.js:9
  catalogTemplate,  \* module-level variable, app.js:9
  calls,            \* the calls start() has made, in order
  mfeWrites,        \* assignments to MFElist so far
  tplWrites,        \* assignments to catalogTemplate so far
  failedStep,       \* the awaited step of start() that rejected, or "none"
  logged,           \* fastify.log.error(err) has been called
  exitCode,         \* argument of process.exit, or -1 while running
  req               \* per request: the request, its handler and its reply

vars == <<pc, MFElist, catalogTemplate, calls, mfeWrites, tplWrites,
          failedStep, logged, exitCode, req>>

startVars == <<pc, MFElist, catalogTemplate, calls, mfeWrites, tplWrites,
               failedStep, logged, exitCode>>

Methods == {"GET", "POST"}
Urls == {"/hello", "/error", "/health", "/productdetails", "/does-not-exist"}

\* A request that has not arrived, with a reply nothing was written to.
IdleRequest ==
  [ st |-> "idle", method |-> "GET", url |-> "", status |-> 0, ctype |-> "",
    body |-> <<>>, headWrites |-> 0, endCalls |-> 0, stream |-> <<>>,
    arg |-> JSUndefined, tplArg |-> UnsetTemplate, tcalls |-> 0,
    cacheReads |-> 0, tres |-> "none", errHandled |-> 0, nfHandled |-> 0 ]

Init ==
  /\ pc = "start"
  /\ MFElist = UnsetRegistry
  /\ catalogTemplate = UnsetTemplate
  /\ calls = <<>>
  /\ mfeWrites = 0
  /\ tplWrites = 0
  /\ failedStep = "none"
  /\ logged = FALSE
  /\ exitCode = -1
  /\ req = [r \in ReqIds |-> IdleRequest]

\* ----------------------------------------------------------------- start()

\* start() is called and calls init() (app.js:62, right-hand side).
CallInit ==
  /\ pc = "start"
  /\ pc' = "awaitInit"
  /\ calls' = Append(calls, "init")
  /\ UNCHANGED <<MFElist, catalogTemplate, mfeWrites, tplWrites, failedStep,
                 logged, exitCode, req>>

\* Mutant of InitResolves: start() listens right after init(), before the
\* template is loaded.
InitResolves_ListenFirst ==
  /\ pc = "awaitInit"
  /\ \E cfg \in Registries :
       /\ MFElist' = cfg
       /\ mfeWrites' = mfeWrites + 1
  /\ calls' = Append(calls, "listen")
  /\ pc' = "awaitListen"
  /\ UNCHANGED <<catalogTemplate, tplWrites, failedStep, logged, exitCode, req>>

\* init() resolves: MFElist is assigned and loadFromS3 is called with
\* MFElist.template and MFElist.templatesBucket (app.js:62-64).
InitResolves ==
  /\ pc = "awaitInit"
  /\ \E cfg \in Registries :
       /\ MFElist' = cfg
       /\ mfeWrites' = mfeWrites + 1
  /\ calls' = Append(calls, "loadFromS3")
  /\ pc' = "awaitLoad"
  /\ UNCHANGED <<catalogTemplate, tplWrites, failedStep, logged, exitCode, req>>

\* init() rejects: control goes to the catch block.
InitRejects ==
  /\ pc = "awaitInit"
  /\ pc' = "catch"
  /\ failedStep' = "init"
  /\ UNCHANGED <<MFElist, catalogTemplate, calls, mfeWrites, tplWrites,
                 logged, exitCode, req>>

\* loadFromS3 resolves with the object: catalogTemplate is assigned and
\* fastify.listen is called (app.js:64-65).
LoadResolves ==
  /\ pc = "awaitLoad"
  /\ HasObject(MFElist.template, MFElist.templatesBucket)
  /\ catalogTemplate' = ObjectAt(MFElist.template, MFElist.templatesBucket)
  /\ tplWrites' = tplWrites + 1
  /\ calls' = Append(calls, "listen")
  /\ pc' = "awaitListen"
  /\ UNCHANGED <<MFElist, mfeWrites, failedStep, logged, exitCode, req>>

\* loadFromS3 rejects (no such object, or the object store is unreachable).
LoadRejects ==
  /\ pc = "awaitLoad"
  /\ pc' = "catch"
  /\ failedStep' = "loadFromS3"
  /\ UNCHANGED <<MFElist, catalogTemplate, calls, mfeWrites, tplWrites,
                 logged, exitCode, req>>

\* fastify.listen resolves: the server accepts connections (app.js:65).
ListenResolves ==
  /\ pc = "awaitListen"
  /\ pc' = "listening"
  /\ UNCHANGED <<MFElist, catalogTemplate, calls, mfeWrites, tplWrites,
                 failedStep, logged, exitCode, req>>

\* fastify.listen rejects (the port cannot be bound).
ListenRejects ==
  /\ pc = "awaitListen"
  /\ pc' = "catch"
  /\ failedStep' = "listen"
  /\ UNCHANGED <<MFElist, catalogTemplate, calls, mfeWrites, tplWrites,
                 logged, exitCode, req>>

\* Mutant of Catch: the failure is logged and start() is tried again.
Catch_Retry ==
  /\ pc = "catch"
  /\ logged' = TRUE
  /\ pc' = "start"
  /\ UNCHANGED <<MFElist, catalogTemplate, calls, mfeWrites, tplWrites,
                 failedStep, exitCode, req>>

\* The catch block: fastify.log.error(err); process.exit(1) (app.js:66-69).
Catch ==
  /\ pc = "catch"
  /\ logged' = TRUE
  /\ exitCode' = 1
  /\ pc' = "exited"
  /\ UNCHANGED <<MFElist, catalogTemplate, calls, mfeWrites, tplWrites,
                 failedStep, req>>

StartStep ==
  \/ CallInit
  \/ InitResolves
  \/ InitRejects
  \/ LoadResolves
  \/ LoadRejects
  \/ ListenResolves
  \/ ListenRejects
  \/ Catch

\* --------------------------------------------------------- the HTTP surface

\* Mutant of Route: a GET that matches no route is handled as /error.
Route_Wildcard(method, url) ==
  IF method = "GET" /\ url = "/hello" THEN "hello"
  ELSE IF method = "GET" /\ url = "/health" THEN "health"
  ELSE IF method = "GET" /\ url = "/productdetails" THEN "productdetails"
  ELSE IF method = "GET" THEN "error"
  ELSE "notFound"

\* The routing table: fastify.get registrations (app.js:27,41,45,49); a
\* request that matches none goes to the not-found handler.
Route(method, url) ==
  IF method = "GET" /\ url = "/hello" THEN "hello"
  ELSE IF method = "GET" /\ url = "/error" THEN "error"
  ELSE IF method = "GET" /\ url = "/health" THEN "health"
  ELSE IF method = "GET" /\ url = "/productdetails" THEN "productdetails"
  ELSE "notFound"

\* reply.code(code).send(payload): the whole JSON response at once.
Send(rq, code, payload) ==
  [rq EXCEPT !.status = code, !.ctype = "application/json",
             !.headWrites = rq.headWrites + 1, !.body = <<payload>>,
             !.endCalls = rq.endCalls + 1, !.st = "done"]

\* responseStream(str, code, reply), its synchronous part (app.js:13-23):
\* writeHead, then a Readable over [str] with its data and end listeners.
responseStream(rq, str, code) ==
  [rq EXCEPT !.status = code, !.ctype = "text/html",
             !.headWrites = rq.headWrites + 1,
             !.stream = <<str>>, !.arg = str, !.st = "streaming"]

\* A request arrives; requests take the reply slots in order.
Arrive(r) ==
  /\ pc = "listening"
  /\ req[r].st = "idle"
  /\ \A q \in ReqIds : q < r => req[q].st # "idle"
  /\ \E m \in Methods, u \in Urls :
       req' = [req EXCEPT ![r] = [@ EXCEPT !.st = "received",
                                           !.method = m, !.url = u]]
  /\ UNCHANGED startVars

Routed(r, route) ==
  /\ pc = "listening"
  /\ req[r].st = "received"
  /\ Route(req[r].method, req[r].url) = route

\* GET /hello (app.js:27-31).
HelloHandler(r) ==
  /\ Routed(r, "hello")
  /\ req' = [req EXCEPT ![r] = Send(@, 200, HelloPayload)]
  /\ UNCHANGED startVars

\* GET /error (app.js:41-43): the handler throws.
ErrorRoute(r) ==
  /\ Routed(r, "error")
  /\ req' = [req EXCEPT ![r] = [@ EXCEPT !.st = "errorHandler"]]
  /\ UNCHANGED startVars

\* Mutant of HealthHandler: health is reported from the cached template,
\* and a template without fragments fails the check.
HealthHandler_CacheAware(r) ==
  /\ Routed(r, "health")
  /\ req' = [req EXCEPT ![r] =
       IF catalogTemplate = PlainTemplate
       THEN [@ EXCEPT !.cacheReads = @ + 1, !.st = "errorHandler"]
       ELSE Send([@ EXCEPT !.cacheReads = @ + 1], 200, HealthPayload)]
  /\ UNCHANGED startVars

\* GET /health (app.js:45-47).
HealthHandler(r) ==
  /\ Routed(r, "health")
  /\ req' = [req EXCEPT ![r] = Send(@, 200, HealthPayload)]
  /\ UNCHANGED startVars

\* Mutant of ProductDetailsHandler: the template is fetched again on every
\* request.
ProductDetailsHandler_Reload(r) ==
  /\ Routed(r, "productdetails")
  /\ catalogTemplate' = ObjectAt(MFElist.template, MFElist.templatesBucket)
  /\ tplWrites' = tplWrites + 1
  /\ calls' = Append(calls, "loadFromS3")
  /\ req' = [req EXCEPT ![r] = [@ EXCEPT !.st = "awaitTransform",
                                         !.tplArg = catalogTemplate',
                                         !.cacheReads = @ + 1,
                                         !.tcalls = @ + 1]]
  /\ UNCHANGED <<pc, MFElist, mfeWrites, failedStep, logged, exitCode>>

\* Mutant of ProductDetailsHandler: the page composed for an earlier request
\* is kept and served again without calling the transformer.
ProductDetailsHandler_Cached(r) ==
  /\ Routed(r, "productdetails")
  /\ LET served == {q \in ReqIds : req[q].tres = "ok" /\ req[q].st = "done"}
     IN IF served = {}
        THEN req' = [req EXCEPT ![r] = [@ EXCEPT !.st = "awaitTransform",
                                                !.tplArg = catalogTemplate,
                                                !.cacheReads = @ + 1,
                                                !.tcalls = @ + 1]]
        ELSE \E q \in served :
               req' = [req EXCEPT ![r] =
                 responseStream([@ EXCEPT !.tres = "ok"],
                                JSString(req[q].body[1]), 200)]
  /\ UNCHANGED startVars

\* GET /productdetails up to its await (app.js:49-51): catalogTemplate is
\* read and transformTemplate is called with it.
ProductDetailsHandler(r) ==
  /\ Routed(r, "productdetails")
  /\ req' = [req EXCEPT ![r] = [@ EXCEPT !.st = "awaitTransform",
                                         !.tplArg = catalogTemplate,
                                         !.cacheReads = @ + 1,
                                         !.tcalls = @ + 1]]
  /\ UNCHANGED startVars

\* transformTemplate resolves and the page is streamed (app.js:51-52).
TransformResolves(r) ==
  /\ pc = "listening"
  /\ req[r].st = "awaitTransform"
  /\ req' = [req EXCEPT ![r] =
       responseStream([@ EXCEPT !.tres = "ok"],
                      JSString(transformTemplate(@.tplArg)), 200)]
  /\ UNCHANGED startVars

\* Mutant of TransformRejects: the 200 header is written before the
\* transformer's result is known.
TransformRejects_AfterHead(r) ==
  /\ pc = "listening"
  /\ req[r].st = "awaitTransform"
  /\ req' = [req EXCEPT ![r] = [@ EXCEPT !.tres = "fail",
                                         !.status = 200,
                                         !.ctype = "text/html",
                                         !.headWrites = @ + 1,
                                         !.st = "errorHandler"]]
  /\ UNCHANGED startVars

\* transformTemplate rejects; the catch block logs and rethrows
\* (app.js:53-56), which hands the request to the error handler.
TransformRejects(r) ==
  /\ pc = "listening"
  /\ req[r].st = "awaitTransform"
  /\ req' = [req EXCEPT ![r] = [@ EXCEPT !.tres = "fail",
                                         !.st = "errorHandler"]]
  /\ UNCHANGED startVars

\* fastify.setErrorHandler (app.js:33-35).
ErrorHandler(r) ==
  /\ pc = "listening"
  /\ req[r].st = "errorHandler"
  /\ req' = [req EXCEPT ![r] =
       responseStream([@ EXCEPT !.errHandled = @ + 1],
                      JSString(serverErrorPage), 500)]
  /\ UNCHANGED startVars

\* Mutant of NotFoundHandler: the not-found page is sent with status 200.
NotFoundHandler_Ok(r) ==
  /\ Routed(r, "notFound")
  /\ req' = [req EXCEPT ![r] =
       responseStream([@ EXCEPT !.nfHandled = @ + 1],
                      JSString(notFoundPage), 200)]
  /\ UNCHANGED startVars

\* fastify.setNotFoundHandler (app.js:37-39).
NotFoundHandler(r) ==
  /\ Routed(r, "notFound")
  /\ req' = [req EXCEPT ![r] =
       responseStream([@ EXCEPT !.nfHandled = @ + 1],
                      JSString(notFoundPage), 404)]
  /\ UNCHANGED startVars

\* Mutant of StreamData: the chunk is written to every reply that is being
\* streamed (one module-level reply shared by the requests in flight).
StreamData_Shared(r) ==
  /\ pc = "listening"
  /\ req[r].st = "streaming"
  /\ req[r].stream # <<>>
  /\ Head(req[r].stream).type = "string"
  /\ req' = [q \in ReqIds |->
       IF q = r
       THEN [req[q] EXCEPT !.body = Append(@, ToStr(Head(req[r].stream))),
                           !.stream = Tail(@)]
       ELSE IF req[q].st = "streaming"
       THEN [req[q] EXCEPT !.body = Append(@, ToStr(Head(req[r].stream)))]
       ELSE req[q]]
  /\ UNCHANGED startVars

\* The stream's 'data' event: reply.raw.write(chunk.toString())
\* (app.js:17-19).
StreamData(r) ==
  /\ pc = "listening"
  /\ req[r].st = "streaming"
  /\ req[r].stream # <<>>
  /\ Head(req[r].stream).type = "string"
  /\ req' = [req EXCEPT ![r] =
       [@ EXCEPT !.body = Append(@, ToStr(Head(req[r].stream))),
                 !.stream = Tail(@)]]
  /\ UNCHANGED startVars

\* The stream's 'end' event: reply.raw.end() (app.js:21-23).
StreamEnd(r) ==
  /\ pc = "listening"
  /\ req[r].st = "streaming"
  /\ req[r].stream = <<>>
  /\ req' = [req EXCEPT ![r] = [@ EXCEPT !.endCalls = @ + 1, !.st = "done"]]
  /\ UNCHANGED startVars

RequestStep(r) ==
  \/ Arrive(r)
  \/ HelloHandler(r)
  \/ ErrorRoute(r)
  \/ HealthHandler(r)
  \/ ProductDetailsHandler(r)
  \/ TransformResolves(r)
  \/ TransformRejects(r)
  \/ ErrorHandler(r)
  \/ NotFoundHandler(r)
  \/ StreamData(r)
  \/ StreamEnd(r)

Next == StartStep \/ \E r \in ReqIds : RequestStep(r)

Spec == Init /\ [][Next]_vars

\* The event loop runs every callback that is ready: the catch block of
\* start() after a rejected await, the error handler of a request whose
\* handler threw, and the 'data' and 'end' events of a stream.
Fairness ==
  /\ WF_vars(Catch)
  /\ \A r \in ReqIds :
       /\ WF_vars(ErrorHandler(r))
       /\ WF_vars(StreamData(r))
       /\ WF_vars(StreamEnd(r))

FairSpec == Spec /\ Fairness

\* ------------------------------------------- responseStream on any argument

\* The values a caller may pass as str: texts (the empty one included), and
\* the non-texts null and undefined.
JSValues ==
  { JSString(serverErrorPage), JSString(notFoundPage),
    JSString(transformTemplate(CatalogTemplate)), JSString(<<>>),
    JSNull, JSUndefined }

StatusCodes == {200, 404, 500}

\* The process after a successful start(), no request handled yet.
InitRS ==
  /\ pc = "listening"
  /\ MFElist \in {cfg \in Registries :
                     HasObject(cfg.template, cfg.templatesBucket)}
  /\ catalogTemplate = ObjectAt(MFElist.template, MFElist.templatesBucket)
  /\ calls = <<"init", "loadFromS3", "listen">>
  /\ mfeWrites = 1
  /\ tplWrites = 1
  /\ failedStep = "none"
  /\ logged = FALSE
  /\ exitCode = -1
  /\ req = [r \in ReqIds |-> IdleRequest]

\* A handler calls responseStream(str, code, reply) on a fresh reply.
CallResponseStream(r) ==
  /\ pc = "listening"
  /\ req[r].st = "idle"
  /\ \E str \in JSValues, code \in StatusCodes :
       req' = [req EXCEPT ![r] = responseStream(@, str, code)]
  /\ UNCHANGED startVars

\* An exception nothing catches ends the process with exit code 1.
UncaughtException(r) ==
  /\ req' = [req EXCEPT ![r] = [@ EXCEPT !.st = "aborted"]]
  /\ pc' = "exited"
  /\ exitCode' = 1
  /\ UNCHANGED <<MFElist, catalogTemplate, calls, mfeWrites, tplWrites,
                 failedStep, logged>>

\* Readable.from([null]): the stream is destroyed with ERR_STREAM_NULL_VALUES;
\* it emits 'error', for which app.js registers no listener, and never 'end'.
StreamNullError(r) ==
  /\ pc = "listening"
  /\ req[r].st = "streaming"
  /\ req[r].stream # <<>>
  /\ Head(req[r].stream).type = "null"
  /\ UncaughtException(r)

\* The 'data' listener on an undefined chunk: chunk.toString() throws a
\* TypeError inside the listener (app.js:18); 'end' is never reached.
StreamDataThrows(r) ==
  /\ pc = "listening"
  /\ req[r].st = "streaming"
  /\ req[r].stream # <<>>
  /\ Head(req[r].stream).type = "undefined"
  /\ UncaughtException(r)

NextRS ==
  \E r \in ReqIds :
    \/ CallResponseStream(r)
    \/ StreamData(r)
    \/ StreamEnd(r)
    \/ StreamNullError(r)
    \/ StreamDataThrows(r)

SpecRS == InitRS /\ [][NextRS]_vars

\* ------------------------------------------------------------------ claims

StartOrder == <<"init", "loadFromS3", "listen">>

IsPrefix(s, t) == Len(s) <= Len(t) /\ \A i \in 1..Len(s) : s[i] = t[i]

Called(step) == \E i \in 1..Len(calls) : calls[i] = step

CallCount(step) == Cardinality({i \in 1..Len(calls) : calls[i] = step})

RouteOf(r) == Route(req[r].method, req[r].url)

Handled(r) == req[r].st \notin {"idle", "received"}

CacheReady ==
  /\ mfeWrites = 1
  /\ tplWrites = 1
  /\ MFElist \in Registries
  /\ catalogTemplate = ObjectAt(MFElist.template, MFElist.templatesBucket)
  /\ catalogTemplate # UnsetTemplate

\* C1: start() calls init, loadFromS3 and listen in this order, each at most
\* once; loadFromS3 is called only once MFElist is assigned, listen only once
\* both MFElist and catalogTemplate are assigned, and a request is received
\* or handled only while the process listens with both assigned.
C1_StartOrder ==
  /\ IsPrefix(calls, StartOrder)
  /\ CallCount("listen") <= 1
  /\ (Called("loadFromS3") => mfeWrites = 1 /\ MFElist \in Registries)
  /\ (Called("listen") => CacheReady)
  /\ \A r \in ReqIds :
       req[r].st # "idle" => pc = "listening" /\ CacheReady

C1_Witness ==
  \E r \in ReqIds :
    /\ RouteOf(r) = "productdetails"
    /\ req[r].st = "done"
    /\ calls = StartOrder

C2_NeverServes ==
  /\ failedStep \in {"init", "loadFromS3"} =>
       /\ pc \in {"catch", "exited"}
       /\ ~Called("listen")
       /\ CallCount("init") = 1
       /\ CallCount("loadFromS3") <= 1
       /\ \A r \in ReqIds : req[r] = IdleRequest
  /\ pc = "exited" => logged /\ exitCode = 1 /\ failedStep # "none"
  /\ pc # "exited" => exitCode = -1

\* C2: once init() or loadFromS3() has failed, start() is in its catch block
\* or the process has exited; listen is never called, no request is
\* received, and neither init nor loadFromS3 is called a second time; the
\* process eventually exits, with the failure logged and exit status 1.
C2_FailFast ==
  /\ []C2_NeverServes
  /\ (failedStep \in {"init", "loadFromS3"}) ~>
       (pc = "exited" /\ logged /\ exitCode = 1)

C2_Witness ==
  /\ pc = "exited"
  /\ failedStep = "loadFromS3"
  /\ MFElist.template = "missing.html"

C3_Composed ==
  \A r \in ReqIds :
    (RouteOf(r) = "productdetails" /\ req[r].tres = "ok") =>
      /\ req[r].status = 200
      /\ req[r].ctype = "text/html"
      /\ req[r].headWrites = 1
      /\ req[r].tcalls = 1
      /\ req[r].errHandled = 0
      /\ req[r].st \in {"streaming", "done"}
      /\ req[r].body \in {<<>>, <<transformTemplate(catalogTemplate)>>}
      /\ req[r].endCalls = (IF req[r].st = "done" THEN 1 ELSE 0)
      /\ req[r].st = "done" =>
           req[r].body = <<transformTemplate(catalogTemplate)>>

\* C3: a GET /productdetails whose transformTemplate call resolved has one
\* header, 200 with text/html, written once; its transformer was called
\* exactly once, for this request; the error handler is never used; and the
\* response is eventually ended with the body
\* transformTemplate(catalogTemplate).
C3_ProductDetailsOk ==
  /\ []C3_Composed
  /\ \A r \in ReqIds :
       (req[r].tres = "ok") ~>
         (req[r].endCalls = 1
            /\ req[r].body = <<transformTemplate(catalogTemplate)>>)

C3_Witness ==
  /\ catalogTemplate = CatalogTemplate
  /\ \A r \in ReqIds :
       /\ RouteOf(r) = "productdetails"
       /\ req[r].tres = "ok"
       /\ req[r].st = "done"

C4_NoComposedOutput ==
  \A r \in ReqIds :
    (RouteOf(r) = "productdetails" /\ req[r].tres = "fail") =>
      /\ req[r].status \in {0, 500}
      /\ req[r].status = 500 => req[r].ctype = "text/html"
      /\ req[r].headWrites = (IF req[r].status = 500 THEN 1 ELSE 0)
      /\ req[r].body \in {<<>>, <<serverErrorPage>>}
      /\ req[r].errHandled <= 1
      /\ req[r].endCalls = (IF req[r].st = "done" THEN 1 ELSE 0)
      /\ req[r].st = "done" =>
           req[r].status = 500 /\ req[r].body = <<serverErrorPage>>

\* C4: a GET /productdetails whose transformTemplate call rejected never has
\* status 200 nor any composed output written; what is written is the 500
\* header and serverErrorPage, and reply.raw.end() is eventually called.
C4_ErrorPage ==
  /\ []C4_NoComposedOutput
  /\ \A r \in ReqIds :
       (req[r].tres = "fail") ~>
         (req[r].endCalls = 1 /\ req[r].status = 500
            /\ req[r].body = <<serverErrorPage>>)

C4_Witness ==
  \E r \in ReqIds :
    /\ RouteOf(r) = "productdetails"
    /\ req[r].tres = "fail"
    /\ req[r].st = "done"
    /\ req[r].endCalls = 1

\* C5: a handled GET /health has status 200 and the payload {healthy: true},
\* whatever the cached template is; its handler reads no cached variable,
\* calls no transformer and never reaches the error handler.
C5_Health ==
  \A r \in ReqIds :
    (RouteOf(r) = "health" /\ Handled(r)) =>
      /\ req[r].st = "done"
      /\ req[r].status = 200
      /\ req[r].body = <<HealthPayload>>
      /\ req[r].endCalls = 1
      /\ req[r].cacheReads = 0
      /\ req[r].tcalls = 0
      /\ req[r].errHandled = 0

C5_Witness ==
  /\ catalogTemplate = PlainTemplate
  /\ \E r, q \in ReqIds :
       /\ RouteOf(r) = "health" /\ req[r].st = "done"
       /\ req[q].tres = "fail"

\* C6: a handled request that matches no registered route has status 404
\* and Content-Type text/html written by the not-found handler, never 200 or
\* 500, and once ended its body is notFoundPage.
C6_NotFound ==
  \A r \in ReqIds :
    (RouteOf(r) = "notFound" /\ Handled(r)) =>
      /\ req[r].status = 404
      /\ req[r].ctype = "text/html"
      /\ req[r].headWrites = 1
      /\ req[r].nfHandled = 1
      /\ req[r].errHandled = 0
      /\ req[r].body \in {<<>>, <<notFoundPage>>}
      /\ req[r].st = "done" =>
           req[r].body = <<notFoundPage>> /\ req[r].endCalls = 1

C6_Witness ==
  \E r \in ReqIds :
    /\ req[r].method = "GET"
    /\ req[r].url = "/does-not-exist"
    /\ req[r].st = "done"

Finished(r) == req[r].st = "done"

\* C7, as claimed: the routes are /health, /productdetails and /hello; a GET
\* of any other path ends as 404 with the not-found page, and only
\* /productdetails ends as 500.
C7_ThreeRoutes ==
  \A r \in ReqIds :
    Finished(r) =>
      /\ (req[r].method = "GET"
            /\ req[r].url \notin {"/health", "/productdetails", "/hello"})
           => req[r].status = 404 /\ req[r].body = <<notFoundPage>>
      /\ req[r].status = 500 => req[r].url = "/productdetails"

\* C7, amended: the routes are /health, /productdetails, /hello and /error;
\* a GET of any other path ends as 404 with the not-found page, a GET of one
\* of the four never ends as 404, and only GET /productdetails and
\* GET /error end as 500.
C7_FourRoutes ==
  \A r \in ReqIds :
    Finished(r) =>
      /\ (req[r].method = "GET"
            /\ req[r].url \notin
                 {"/health", "/productdetails", "/hello", "/error"})
           => req[r].status = 404 /\ req[r].body = <<notFoundPage>>
      /\ (req[r].method = "GET"
            /\ req[r].url \in
                 {"/health", "/productdetails", "/hello", "/error"})
           => req[r].status # 404
      /\ req[r].status = 500 =>
           /\ req[r].method = "GET"
           /\ req[r].url \in {"/productdetails", "/error"}

C7_Witness ==
  \E r, q \in ReqIds :
    /\ req[r].method = "GET" /\ req[r].url = "/error"
    /\ Finished(r) /\ req[r].status = 500
    /\ req[q].method = "GET" /\ req[q].url = "/does-not-exist"
    /\ Finished(q) /\ req[q].status = 404

C8_Counts ==
  /\ mfeWrites <= 1
  /\ tplWrites <= 1
  /\ CallCount("init") <= 1
  /\ CallCount("loadFromS3") <= 1
  /\ pc = "listening" => mfeWrites = 1 /\ tplWrites = 1

C8_Frozen ==
  pc = "listening" =>
    /\ MFElist' = MFElist
    /\ catalogTemplate' = catalogTemplate
    /\ mfeWrites' = mfeWrites
    /\ tplWrites' = tplWrites
    /\ calls' = calls

\* C8: MFElist and catalogTemplate are each assigned at most once, and exactly
\* once when the process listens; no step taken while it listens assigns
\* either or calls init() or loadFromS3().
C8_WriteOnce == []C8_Counts /\ [][C8_Frozen]_vars

C8_Witness ==
  /\ pc = "listening"
  /\ \A r \in ReqIds : RouteOf(r) = "productdetails" /\ Finished(r)

\* C9: every call of responseStream that has run to its end, or whose process
\* has ended, has written one header, the whole text and called
\* reply.raw.end() once.
C9_AlwaysClosed ==
  \A r \in ReqIds :
    (req[r].headWrites >= 1 /\ (req[r].st \in {"done", "aborted"}
                                  \/ pc = "exited")) =>
      /\ req[r].headWrites = 1
      /\ req[r].endCalls = 1
      /\ req[r].body = <<ToStr(req[r].arg)>>

\* What a finished request has to answer, from its route, the outcome of its
\* own transformer call and the cached template.
Expected(rq) ==
  LET route == Route(rq.method, rq.url)
  IN IF route = "hello" THEN <<200, <<HelloPayload>>>>
     ELSE IF route = "health" THEN <<200, <<HealthPayload>>>>
     ELSE IF route = "notFound" THEN <<404, <<notFoundPage>>>>
     ELSE IF route = "productdetails" /\ rq.tres = "ok"
       THEN <<200, <<transformTemplate(catalogTemplate)>>>>
     ELSE <<500, <<serverErrorPage>>>>

C10_Determined ==
  /\ \A r \in ReqIds :
       Finished(r) => <<req[r].status, req[r].body>> = Expected(req[r])
  /\ \A r, q \in ReqIds :
       (Finished(r) /\ Finished(q)
          /\ RouteOf(r) = "productdetails" /\ RouteOf(q) = "productdetails"
          /\ req[r].status = 200 /\ req[q].status = 200)
         => req[r].body = req[q].body

C10_OneAtATime ==
  \A r, q \in ReqIds :
    (r # q /\ req'[r] # req[r]) => req'[q] = req[q]

\* C10: under every interleaving a finished request's status and body are
\* those its route, its own transformer outcome and the cached template
\* determine; two /productdetails answered 200 have the same body; and a
\* step of one request changes nothing of another request.
C10_Independent == []C10_Determined /\ [][C10_OneAtATime]_vars

C10_Witness ==
  \E r, q \in ReqIds :
    /\ RouteOf(r) = "productdetails" /\ RouteOf(q) = "productdetails"
    /\ Finished(r) /\ Finished(q)
    /\ req[r].tres = "fail" /\ req[q].tres = "ok"
    /\ req[q].status = 200

====
